---- MODULE Spec2Model ----
(***************************************************************************)
(* Model of the dependency tools (src/c/tools/dependency_tools.py) and of  *)
(* the import/usage analysis (src/c/tools/analyze_python_ast.py).          *)
(*                                                                         *)
(* Text is modelled as sequences of one-character strings so that the      *)
(* regular expressions, strip() and split() are computed the way the code  *)
(* computes them.                                                          *)
(***************************************************************************)
EXTENDS Integers, Sequences, FiniteSets, TLC

VARIABLES
    dep,              \* split_dependency: the specifier handed in
    splitOut,         \* split_dependency: the returned pair
    manifest,         \* the file a manifest parser is called on
    manifestOut,      \* the records that parser returned
    tree,             \* the project tree, as os.walk yields it
    rt,               \* the Python runtime the probe asks
    pc,               \* position of the running function
    idx,              \* loop index of the running function
    dependencies,     \* extract_python_file_dependencies: the set
    scanOut,          \* extract_python_file_dependencies: the returned list
    results,          \* analyze_repo: the record list
    all_dependencies, \* extract_project_dependencies: the record list
    csv,              \* rows of all_dependencies_with_paths.csv
    run,              \* number of the aggregator run
    previous          \* all_dependencies of the run before

vars == << dep, splitOut, manifest, manifestOut, tree, rt, pc, idx,
           dependencies, scanOut, results, all_dependencies, csv, run,
           previous >>

(***************************************************************************)
(* Characters and character classes of Python's re module                  *)
(***************************************************************************)
Lower == {"a","b","c","d","e","f","g","h","i","j","k","l","m",
          "n","o","p","q","r","s","t","u","v","w","x","y","z"}
Upper == {"A","B","C","D","E","F","G","H","I","J","K","L","M",
          "N","O","P","Q","R","S","T","U","V","W","X","Y","Z"}
Digit == {"0","1","2","3","4","5","6","7","8","9"}
\* \w
Word == Lower \cup Upper \cup Digit \cup {"_"}
\* \s
Space == {" ", "\t", "\n"}
Punct == {"-", "[", "]", "<", ">", "=", "~", "!", ".", "*", ";", "'", "#",
          ",", "(", ")", "^", "@", ":", "{", "}", "/"}
Chars == Word \cup Space \cup Punct

\* [\w\-]
NameChar == Word \cup {"-"}
\* [^\]]
NotCloseBracket == Chars \ {"]"}
\* [<>=~!]
Comparator == {"<", ">", "=", "~", "!"}
\* [\d\w\.\*]
VersionChar == Word \cup {".", "*"}
\* .  (no DOTALL flag)
Dot == Chars \ {"\n"}
\* [\w\d_\.]
ModuleChar == Word \cup {"."}

Unknown == <<"U","n","k","n","o","w","n">>

(***************************************************************************)
(* String helpers                                                          *)
(***************************************************************************)
\* s[i:j] with 1-based i and exclusive j
Slice(s, i, j) == SubSeq(s, i, j - 1)

\* position after the longest run of characters of class cls starting at i
RECURSIVE RunEnd(_, _, _)
RunEnd(s, i, cls) ==
    IF i <= Len(s) /\ s[i] \in cls THEN RunEnd(s, i + 1, cls) ELSE i

\* position of the last character that is not in cls, scanning down from j
RECURSIVE RunStart(_, _, _)
RunStart(s, j, cls) ==
    IF j >= 1 /\ s[j] \in cls THEN RunStart(s, j - 1, cls) ELSE j

\* str.strip()
Strip(s) ==
    LET i == RunEnd(s, 1, Space)
        j == RunStart(s, Len(s), Space)
    IN  IF i > j THEN << >> ELSE SubSeq(s, i, j)

\* s.startswith(prefix) at position i
StartsWithAt(s, i, prefix) ==
    /\ i + Len(prefix) - 1 <= Len(s)
    /\ \A k \in 1..Len(prefix) : s[i + k - 1] = prefix[k]

(***************************************************************************)
(* split_dependency                                                        *)
(***************************************************************************)
\* re.match(r"([\w\-]+)(?:\[[^\]]+\])?([<>=~!]\s[\d\w\.\*]+)?(;.+)?", s)
\* Every part after group 1 is optional, so the greedy first attempt of each
\* part is the one the match keeps.  Each operator below is one part of the
\* pattern tried at position i; it gives the position after the part, which
\* is i itself when the part does not match there.

\* (?:\[[^\]]+\])?
PatternExtras(s, i) ==
    LET exRun == RunEnd(s, i + 1, NotCloseBracket)
    IN  IF /\ i <= Len(s) /\ s[i] = "["
           /\ exRun > i + 1
           /\ exRun <= Len(s) /\ s[exRun] = "]"
        THEN exRun + 1 ELSE i

\* ([<>=~!]\s[\d\w\.\*]+)?
PatternVersion(s, i) ==
    LET verRun == RunEnd(s, i + 2, VersionChar)
    IN  IF /\ i + 1 <= Len(s)
           /\ s[i] \in Comparator
           /\ s[i + 1] \in Space
           /\ verRun > i + 2
        THEN verRun ELSE i

\* (;.+)?
PatternCondition(s, i) ==
    LET condRun == RunEnd(s, i + 1, Dot)
    IN  IF i <= Len(s) /\ s[i] = ";" /\ condRun > i + 1 THEN condRun ELSE i

\* the match object: group 1 ends before g1End, the extras before exEnd and
\* group 2 before g2End
MatchAfterVersion(s, g1End, exEnd, g2End) ==
    [ matched |-> g1End > 1,
      g1 |-> Slice(s, 1, g1End),
      extras |-> exEnd > g1End,
      g2 |-> Slice(s, exEnd, g2End),
      g3 |-> Slice(s, g2End, PatternCondition(s, g2End)) ]

MatchAfterExtras(s, g1End, exEnd) ==
    MatchAfterVersion(s, g1End, exEnd, PatternVersion(s, exEnd))

MatchAfterName(s, g1End) ==
    MatchAfterExtras(s, g1End, PatternExtras(s, g1End))

DependencyPattern(s) == MatchAfterName(s, RunEnd(s, 1, NameChar))

\* the version is returned as it is, without the "Unknown" fallback
split_dependency_as_matched(d) ==
    LET m == DependencyPattern(Strip(d))
        condition == Strip(m.g3)
        version == IF condition # << >>
                   THEN Strip(Strip(m.g2) \o <<" ">> \o condition)
                   ELSE Strip(m.g2)
    IN  IF m.matched THEN << m.g1, version >> ELSE << d, Unknown >>

split_dependency(d) ==
    LET m == DependencyPattern(Strip(d))
        package == m.g1
        version0 == Strip(m.g2)
        condition == Strip(m.g3)
        version == IF condition # << >>
                   THEN Strip(version0 \o <<" ">> \o condition)
                   ELSE version0
    IN  IF m.matched
        THEN << package, IF version # << >> THEN version ELSE Unknown >>
        ELSE << d, Unknown >>

(***************************************************************************)
(* Parsed TOML / YAML / AST values.  A table keeps its entries in file     *)
(* order, as <<key, value>> pairs; keys and strings are character          *)
(* sequences.                                                              *)
(***************************************************************************)
Str(c) == [t |-> "str", v |-> c]
List(items) == [t |-> "list", v |-> items]
Table(pairs) == [t |-> "table", v |-> pairs]
None == [t |-> "none", v |-> << >>]

IsStr(x) == x.t = "str"
IsList(x) == x.t = "list"
IsTable(x) == x.t = "table"

HasKey(tbl, k) == \E i \in 1..Len(tbl.v) : tbl.v[i][1] = k
Get(tbl, k) == tbl.v[CHOOSE i \in 1..Len(tbl.v) : tbl.v[i][1] = k][2]
\* dict.get(k, default)
GetOr(tbl, k, default) == IF HasKey(tbl, k) THEN Get(tbl, k) ELSE default

\* the `in` operator: key of a dict, element of a list, substring of a str;
\* ok = FALSE stands for the TypeError on None
In(k, x) ==
    CASE IsTable(x) -> [ok |-> TRUE, val |-> HasKey(x, k)]
      [] IsList(x) -> [ok |-> TRUE,
                       val |-> \E i \in 1..Len(x.v) : x.v[i] = Str(k)]
      [] IsStr(x) -> [ok |-> TRUE,
                      val |-> \E i \in 1..(Len(x.v) + 1) :
                                  StartsWithAt(x.v, i, k)]
      [] OTHER -> [ok |-> FALSE, val |-> FALSE]

\* iteration: list elements, dict keys, characters of a str;
\* ok = FALSE stands for the TypeError on None
Iter(x) ==
    CASE IsList(x) -> [ok |-> TRUE, items |-> x.v]
      [] IsTable(x) -> [ok |-> TRUE,
                        items |-> [i \in 1..Len(x.v) |-> Str(x.v[i][1])]]
      [] IsStr(x) -> [ok |-> TRUE,
                      items |-> [i \in 1..Len(x.v) |-> Str(<< x.v[i] >>)]]
      [] OTHER -> [ok |-> FALSE, items |-> << >>]

RECURSIVE Join(_, _)
Join(parts, sep) ==
    IF parts = << >> THEN << >>
    ELSE IF Len(parts) = 1 THEN parts[1]
    ELSE parts[1] \o sep \o Join(Tail(parts), sep)

\* repr() of a parsed value
RECURSIVE Repr(_)
Repr(x) ==
    CASE IsStr(x) -> <<"'">> \o x.v \o <<"'">>
      [] IsList(x) ->
            <<"[">> \o Join([i \in 1..Len(x.v) |-> Repr(x.v[i])],
                            <<",", " ">>) \o <<"]">>
      [] IsTable(x) ->
            <<"{">> \o Join([i \in 1..Len(x.v) |->
                               Repr(Str(x.v[i][1])) \o <<":", " ">>
                                   \o Repr(x.v[i][2])],
                            <<",", " ">>) \o <<"}">>
      [] OTHER -> <<"N","o","n","e">>

\* f"{x}"
Format(x) == IF IsStr(x) THEN x.v ELSE Repr(x)

(***************************************************************************)
(* Files.  A file entry of a directory listing is a record                 *)
(*   name       file name                                                  *)
(*   openError  open() raises                                              *)
(*   lines      the text lines that reading delivers                       *)
(*   readError  reading raises after delivering `lines`                    *)
(*   loadError  the structured parse (toml.load, yaml.safe_load,           *)
(*              ast.parse) raises                                          *)
(*   data       the parsed content when the parse succeeds                 *)
(* toml is the tomli library: load returns the parsed table or raises,     *)
(* which includes its refusal of an argument that is not a binary file.    *)
(***************************************************************************)
KeyTool == <<"t","o","o","l">>
KeyPoetry == <<"p","o","e","t","r","y">>
KeyProject == <<"p","r","o","j","e","c","t">>
KeyDependencies == <<"d","e","p","e","n","d","e","n","c","i","e","s">>
KeyDevDependencies ==
    <<"d","e","v","-","d","e","p","e","n","d","e","n","c","i","e","s">>
KeyPackages == <<"p","a","c","k","a","g","e","s">>
KeyDevPackages == <<"d","e","v","-","p","a","c","k","a","g","e","s">>
KeyPackage == <<"p","a","c","k","a","g","e">>
KeyName == <<"n","a","m","e">>
KeyVersion == <<"v","e","r","s","i","o","n">>
KeyPip == <<"p","i","p">>
NameSetup == <<"s","e","t","u","p">>
ArgInstallRequires ==
    <<"i","n","s","t","a","l","l","_","r","e","q","u","i","r","e","s">>

\* for package, version in table.items():
\*     package, version = split_dependency(f"{package}{version}")
\*     dependencies.append((path, package, version))
ItemsToDeps(path, tbl) ==
    [i \in 1..Len(tbl.v) |->
        LET pv == split_dependency(tbl.v[i][1] \o Format(tbl.v[i][2]))
        IN  << path, pv[1], pv[2] >>]

\* for section in sections: if section in data: <ItemsToDeps data[section]>
\* stops with what it has when data[section].items() raises
RECURSIVE SectionLoop(_, _, _, _, _)
SectionLoop(path, data, sections, i, acc) ==
    IF i > Len(sections) THEN acc
    ELSE LET present == In(sections[i], data)
         IN  IF ~present.ok THEN acc
             ELSE IF ~present.val
                  THEN SectionLoop(path, data, sections, i + 1, acc)
             ELSE IF ~IsTable(data) \/ ~IsTable(Get(data, sections[i]))
                  THEN acc
             ELSE SectionLoop(path, data, sections, i + 1,
                       acc \o ItemsToDeps(path, Get(data, sections[i])))

\* for dep in items: package, version = split_dependency(dep); append
\* stops with what it has when dep is not a str (dep.strip() raises)
RECURSIVE SplitLoop(_, _, _, _)
SplitLoop(path, items, i, acc) ==
    IF i > Len(items) THEN [ok |-> TRUE, deps |-> acc]
    ELSE IF ~IsStr(items[i]) THEN [ok |-> FALSE, deps |-> acc]
    ELSE LET pv == split_dependency(items[i].v)
         IN  SplitLoop(path, items, i + 1,
                       Append(acc, << path, pv[1], pv[2] >>))

extract_pipfile_dependencies(path, f) ==
    IF f.loadError THEN << >>
    ELSE SectionLoop(path, f.data, << KeyPackages, KeyDevPackages >>, 1,
                     << >>)

\* the body of the branch taken when "poetry" is in data["tool"]
PoetryRecords(path, data) ==
    IF ~IsTable(Get(data, KeyTool)) THEN << >>
    ELSE SectionLoop(path, Get(Get(data, KeyTool), KeyPoetry),
                     << KeyDependencies, KeyDevDependencies >>, 1, << >>)

\* the elif branch: its condition and its body
ProjectRecords(path, data) ==
    LET hasProject == HasKey(data, KeyProject)
        inProject == In(KeyDependencies, Get(data, KeyProject))
    IN  IF hasProject /\ inProject.ok /\ inProject.val
               /\ IsTable(Get(data, KeyProject))
        THEN SplitLoop(path,
                       Iter(Get(Get(data, KeyProject), KeyDependencies)).items,
                       1, << >>).deps
        ELSE << >>

\* both branches run: the elif written as a second if
extract_pyproject_both(path, f) ==
    IF f.loadError THEN << >>
    ELSE (IF HasKey(f.data, KeyTool)
                /\ In(KeyPoetry, Get(f.data, KeyTool)).val
          THEN PoetryRecords(path, f.data) ELSE << >>)
         \o ProjectRecords(path, f.data)

extract_pyproject_dependencies(path, f) ==
    IF f.loadError THEN << >>
    ELSE LET data == f.data
             hasTool == HasKey(data, KeyTool)
             inTool == In(KeyPoetry, Get(data, KeyTool))
         IN  IF hasTool /\ ~inTool.ok THEN << >>
             ELSE IF hasTool /\ inTool.val THEN PoetryRecords(path, data)
             ELSE ProjectRecords(path, data)

\* for package in data.get("package", []): append (path, name, version)
\* stops with what it has when an element is not a table
RECURSIVE LockLoop(_, _, _, _)
LockLoop(path, items, i, acc) ==
    IF i > Len(items) THEN acc
    ELSE IF ~IsTable(items[i]) THEN acc
    ELSE LockLoop(path, items, i + 1,
             Append(acc, << path,
                            Format(GetOr(items[i], KeyName, Str(<< >>))),
                            Format(GetOr(items[i], KeyVersion,
                                         Str(Unknown))) >>))

extract_poetry_lock_dependencies(path, f) ==
    IF f.openError \/ f.readError \/ f.loadError THEN << >>
    ELSE LockLoop(path, Iter(GetOr(f.data, KeyPackage, List(<< >>))).items,
                  1, << >>)

\* for dep in env_data.get("dependencies", []): str -> split; dict with a
\* "pip" key -> split every entry of dep["pip"]; anything else is skipped
RECURSIVE CondaLoop(_, _, _, _)
CondaLoop(path, items, i, acc) ==
    IF i > Len(items) THEN acc
    ELSE IF IsStr(items[i])
    THEN LET pv == split_dependency(items[i].v)
         IN  CondaLoop(path, items, i + 1,
                       Append(acc, << path, pv[1], pv[2] >>))
    ELSE IF IsTable(items[i]) /\ HasKey(items[i], KeyPip)
    THEN LET it == Iter(Get(items[i], KeyPip))
             inner == SplitLoop(path, it.items, 1, << >>)
         IN  IF it.ok /\ inner.ok
             THEN CondaLoop(path, items, i + 1, acc \o inner.deps)
             ELSE acc \o inner.deps
    ELSE CondaLoop(path, items, i + 1, acc)

get_conda_dependencies(path, f) ==
    IF f.openError \/ f.readError \/ f.loadError \/ ~IsTable(f.data)
    THEN << >>
    ELSE CondaLoop(path,
                   Iter(GetOr(f.data, KeyDependencies, List(<< >>))).items,
                   1, << >>)

\* str.split(sep) for a non-empty separator
RECURSIVE SplitOn(_, _, _)
SplitOn(s, sep, from) ==
    IF \E i \in from..Len(s) : StartsWithAt(s, i, sep)
    THEN LET i == CHOOSE k \in from..Len(s) :
                      /\ StartsWithAt(s, k, sep)
                      /\ \A l \in from..(k - 1) : ~StartsWithAt(s, l, sep)
         IN  << Slice(s, from, i) >> \o SplitOn(s, sep, i + Len(sep))
    ELSE << SubSeq(s, from, Len(s)) >>

\* one line of requirements.txt
PipLine(path, rawLine) ==
    LET line == Strip(rawLine)
        parts == SplitOn(line, <<"=","=">>, 1)
    IN  IF line # << >> /\ line[1] # "#"
        THEN << << path, Strip(parts[1]),
                   IF Len(parts) > 1 THEN Strip(parts[2]) ELSE Unknown >> >>
        ELSE << >>

RECURSIVE PipLoop(_, _, _)
PipLoop(path, lines, i) ==
    IF i > Len(lines) THEN << >>
    ELSE PipLine(path, lines[i]) \o PipLoop(path, lines, i + 1)

get_pip_dependencies(path, f) ==
    IF f.openError THEN << >> ELSE PipLoop(path, f.lines, 1)

\* install_requires of every setup(...) call, string literals only; the
\* parsed content of setup.py is its Call nodes in ast.walk order, each
\* [func: name of the called Name node or <<>>, keywords: <<arg, value>>s]
RECURSIVE KeywordLoop(_, _)
KeywordLoop(keywords, i) ==
    IF i > Len(keywords) THEN << >>
    ELSE (IF keywords[i][1] = ArgInstallRequires /\ IsList(keywords[i][2])
          THEN SelectSeq(keywords[i][2].v, IsStr)
          ELSE << >>) \o KeywordLoop(keywords, i + 1)

RECURSIVE CallLoop(_, _)
CallLoop(calls, i) ==
    IF i > Len(calls) THEN << >>
    ELSE (IF calls[i].func = NameSetup
          THEN KeywordLoop(calls[i].keywords, 1)
          ELSE << >>) \o CallLoop(calls, i + 1)

\* raised = TRUE: the exception leaves parse_setup_py (it has no handler)
parse_setup_py(path, f) ==
    IF f.openError \/ f.readError \/ f.loadError
    THEN [raised |-> TRUE, deps |-> << >>]
    ELSE [raised |-> FALSE,
          deps |-> SplitLoop(path, CallLoop(f.data, 1), 1, << >>).deps]

(***************************************************************************)
(* Directory walk.  A tree is the sequence of directories os.walk yields,  *)
(* each [root: path, files: file entries in listing order].                *)
(***************************************************************************)
\* os.path.join(root, file)
PathJoin(root, file) ==
    IF root # << >> /\ root[Len(root)] = "/" THEN root \o file
    ELSE root \o <<"/">> \o file

\* os.path.normpath for paths without ".." components
NormPath(path) ==
    LET parts == SelectSeq(SplitOn(path, <<"/">>, 1),
                           LAMBDA c : c # << >> /\ c # <<".">>)
        absolute == path # << >> /\ path[1] = "/"
        joined == Join(parts, <<"/">>)
    IN  IF absolute THEN <<"/">> \o joined
        ELSE IF joined = << >> THEN <<".">> ELSE joined

EndsWith(s, suffix) ==
    /\ Len(s) >= Len(suffix)
    /\ SubSeq(s, Len(s) - Len(suffix) + 1, Len(s)) = suffix

DotPy == <<".","p","y">>

\* the (root, file) pairs of the nested loops over os.walk, in loop order
RECURSIVE WalkFiles(_, _)
WalkFiles(walk, d) ==
    IF d > Len(walk) THEN << >>
    ELSE [i \in 1..Len(walk[d].files) |->
             [root |-> walk[d].root, file |-> walk[d].files[i]]]
         \o WalkFiles(walk, d + 1)

\* the files the loops keep: file.endswith(".py")
PyFiles(walk) ==
    SelectSeq(WalkFiles(walk, 1), LAMBDA e : EndsWith(e.file.name, DotPy))

NotFound == << >>

\* first directory of the walk that lists filename
find_file(walk, filename) ==
    LET hit(d) == \E i \in 1..Len(walk[d].files) :
                      walk[d].files[i].name = filename
    IN  IF \E d \in 1..Len(walk) : hit(d)
        THEN PathJoin(walk[CHOOSE d \in 1..Len(walk) :
                               hit(d) /\ \A e \in 1..(d - 1) : ~hit(e)].root,
                      filename)
        ELSE NotFound

\* the file entry a path opens
FileAt(walk, path) ==
    LET all == WalkFiles(walk, 1)
    IN  all[CHOOSE i \in 1..Len(all) :
                PathJoin(all[i].root, all[i].file.name) = path].file

(***************************************************************************)
(* Inline-import scanner                                                   *)
(* The runtime is [builtin_module_names, located, specless]: the builtin  *)
(* registry, the names find_spec returns a spec for, and the names for     *)
(* which find_spec raises ValueError (a loaded module without __spec__).   *)
(***************************************************************************)
find_spec(module_name, runtime) ==
    IF module_name \in runtime.specless THEN "raise"
    ELSE IF module_name \in runtime.located THEN "spec"
    ELSE "none"

is_builtin_module(module_name, runtime) ==
    IF module_name \in runtime.builtin_module_names
    THEN [raised |-> FALSE, val |-> TRUE]
    ELSE [raised |-> find_spec(module_name, runtime) = "raise",
          val |-> find_spec(module_name, runtime) = "none"]

KwImport == <<"i","m","p","o","r","t">>
KwFrom == <<"f","r","o","m">>

\* re.compile(r"^\s*(?:import|from)\s+([\w\d_\.]+)").match(line)
ImportPattern(line) ==
    LET i == RunEnd(line, 1, Space)
        k == IF StartsWithAt(line, i, KwImport) THEN i + Len(KwImport)
             ELSE IF StartsWithAt(line, i, KwFrom) THEN i + Len(KwFrom)
             ELSE 0
        j == RunEnd(line, k, Space)
        e == RunEnd(line, j, ModuleChar)
    IN  IF k > 0 /\ j > k /\ e > j
        THEN [matched |-> TRUE, g1 |-> Slice(line, j, e)]
        ELSE [matched |-> FALSE, g1 |-> << >>]

\* the lines of one file: adds (file_path, module, python_version) for every
\* matching line whose module is not "builtin"; an exception of the probe
\* ends the file with what was added before
RECURSIVE ScanLines(_, _, _, _, _)
ScanLines(path, lines, i, runtime, python_version) ==
    IF i > Len(lines) THEN {}
    ELSE LET m == ImportPattern(lines[i])
             module == SplitOn(m.g1, <<".">>, 1)[1]
             probe == is_builtin_module(module, runtime)
         IN  IF ~m.matched
             THEN ScanLines(path, lines, i + 1, runtime, python_version)
             ELSE IF probe.raised THEN {}
             ELSE (IF ~probe.val
                   THEN {<< path, module, python_version >>} ELSE {})
                  \cup ScanLines(path, lines, i + 1, runtime, python_version)

\* the body of the per-file try block
ScanFile(root, f, runtime, python_version) ==
    IF f.openError THEN {}
    ELSE ScanLines(PathJoin(root, f.name), f.lines, 1, runtime, python_version)

RECURSIVE ScanAll(_, _, _, _)
ScanAll(entries, i, runtime, python_version) ==
    IF i > Len(entries) THEN {}
    ELSE ScanFile(entries[i].root, entries[i].file, runtime, python_version)
         \cup ScanAll(entries, i + 1, runtime, python_version)

\* the set extract_python_file_dependencies has built before list(...)
ScannedSet(walk, runtime, python_version) ==
    ScanAll(PyFiles(walk), 1, runtime, python_version)

\* the orders in which list(set) may enumerate a set: iteration order of a
\* set of tuples of str follows the per-process string hash seed
Orderings(S) ==
    { q \in [1..Cardinality(S) -> S] :
        \A a, b \in 1..Cardinality(S) : a # b => q[a] # q[b] }

(***************************************************************************)
(* Syntax-tree visitor.  A node is [kind, name, module, names, lineno,     *)
(* children]; children are in the order generic_visit iterates the fields. *)
(***************************************************************************)
Node(kind, name, module, names, lineno, children) ==
    [kind |-> kind, name |-> name, module |-> module, names |-> names,
     lineno |-> lineno, children |-> children]

NoVisit == [imports |-> << >>, usage |-> << >>, raised |-> FALSE]

\* ImportUsageVisitor.visit: visit_Import, visit_ImportFrom, visit_Attribute
\* record and then call generic_visit; every other node only recurses.
\* raised: the traversal ends in an exception (RecursionError on a subtree
\* nested deeper than the interpreter's recursion limit)
RECURSIVE Visit(_, _)
RECURSIVE VisitAll(_, _, _)
Visit(node, acc) ==
    IF acc.raised THEN acc
    ELSE IF node.kind = "TooDeep" THEN [acc EXCEPT !.raised = TRUE]
    ELSE LET rec ==
               CASE node.kind = "Import" ->
                      [acc EXCEPT !.imports = @ \o
                          [i \in 1..Len(node.names) |->
                              << node.names[i], node.lineno >>]]
                 [] node.kind = "ImportFrom" ->
                      [acc EXCEPT !.imports = @ \o
                          [i \in 1..Len(node.names) |->
                              << Format(node.module) \o <<".">>
                                     \o node.names[i],
                                 node.lineno >>]]
                 [] node.kind = "Attribute"
                        /\ node.children[1].kind = "Name" ->
                      [acc EXCEPT !.usage = Append(@,
                          << node.children[1].name \o <<".">> \o node.name,
                             node.lineno >>)]
                 [] OTHER -> acc
         IN  VisitAll(node.children, 1, rec)

VisitAll(children, i, acc) ==
    IF i > Len(children) THEN acc
    ELSE VisitAll(children, i + 1, Visit(children[i], acc))

ErrorLine == -1

\* the except clause adds its record to the imports the visitor had
\* collected when the traversal failed
FileRecordsKeepingImports(file_path, f) ==
    LET v == Visit(f.data, NoVisit)
        error == << << file_path, "error", f.message, ErrorLine >> >>
        imports == [i \in 1..Len(v.imports) |->
                       << file_path, "import", v.imports[i][1],
                          v.imports[i][2] >>]
        usages == [i \in 1..Len(v.usage) |->
                      << file_path, "usage", v.usage[i][1], v.usage[i][2] >>]
    IN  IF f.readError \/ f.loadError THEN error
        ELSE IF v.raised THEN imports \o error
        ELSE imports \o usages

\* the two loops over visitor.imports and visitor.usage in the other order
FileRecordsUsagesFirst(file_path, f) ==
    LET v == Visit(f.data, NoVisit)
        error == << << file_path, "error", f.message, ErrorLine >> >>
    IN  IF f.readError \/ f.loadError THEN error
        ELSE IF v.raised THEN error
        ELSE [i \in 1..Len(v.usage) |->
                 << file_path, "usage", v.usage[i][1], v.usage[i][2] >>]
             \o
             [i \in 1..Len(v.imports) |->
                 << file_path, "import", v.imports[i][1], v.imports[i][2] >>]

\* the with-block of analyze_repo for a file that open() has opened: the
\* records of the try body, or the single record of the except clause
FileRecords(file_path, f) ==
    LET v == Visit(f.data, NoVisit)
        error == << << file_path, "error", f.message, ErrorLine >> >>
    IN  IF f.readError \/ f.loadError THEN error
        ELSE IF v.raised THEN error
        ELSE [i \in 1..Len(v.imports) |->
                 << file_path, "import", v.imports[i][1], v.imports[i][2] >>]
             \o
             [i \in 1..Len(v.usage) |->
                 << file_path, "usage", v.usage[i][1], v.usage[i][2] >>]

(***************************************************************************)
(* File entries and the values of the parts of the state that a            *)
(* specification does not use                                              *)
(***************************************************************************)
File(name, lines, data) ==
    [name |-> name, openError |-> FALSE, lines |-> lines,
     readError |-> FALSE, loadError |-> FALSE, data |-> data,
     message |-> << >>]

NoResult == << >>
NoFile == File(<< >>, << >>, None)
NoRuntime == [builtin_module_names |-> {}, located |-> {}, specless |-> {}]

IdleSplit == dep = << >> /\ splitOut = NoResult
IdleManifest == manifest = NoFile /\ manifestOut = NoResult
IdleWalk == tree = << >> /\ rt = NoRuntime /\ pc = "idle" /\ idx = 0
IdleScan == dependencies = {} /\ scanOut = NoResult
IdleRepo == results = << >>
IdleAgg ==
    /\ all_dependencies = << >> /\ csv = NoResult
    /\ run = 0 /\ previous = NoResult

(***************************************************************************)
(* Splitter: inputs and the step that applies split_dependency             *)
(***************************************************************************)
MaxSpecLen == 4

SplitAlphabet == {"p", "[", "]", "=", " ", "1", ";"}

BoundedSeq(S, n) == UNION { [1..k -> S] : k \in 0..n }

RefPinned == <<"p","k","g","=","=","1",".","0">>
RefAtLeast == <<"p","k","g",">","=","1",".","0">>
RefBare == <<"p","k","g">>
RefFull == <<"p","k","g","[","e","x","t","r","a","]",">","=","1",".","0",";",
             " ","p","y","t","h","o","n","_","v","e","r","s","i","o","n",">",
             "=","'","3",".","8","'">>
RefCondOnly == <<"p","k","g",";"," ","p","y","t","h","o","n","_","v","e","r",
                 "s","i","o","n",">","=","'","3",".","8","'">>
RefExtrasOnly == <<"p","k","g","[","e","x","t","r","a","]">>
RefSpaced == <<"p","k","g","[","e","x","t","r","a","]","="," ","1",".","0",
               ";"," ","p","y","t","h","o","n","_","v","e","r","s","i","o",
               "n",">","=","'","3",".","8","'">>

ReferenceSpecifiers ==
    { RefPinned, RefAtLeast, RefBare, RefFull, RefCondOnly, RefExtrasOnly,
      RefSpaced }

Specifiers == ReferenceSpecifiers \cup BoundedSeq(SplitAlphabet, MaxSpecLen)

InitSplit ==
    /\ dep \in Specifiers
    /\ splitOut = NoResult
    /\ IdleManifest /\ IdleWalk /\ IdleScan /\ IdleRepo /\ IdleAgg

Split ==
    /\ splitOut = NoResult
    /\ splitOut' = split_dependency(dep)
    /\ UNCHANGED << dep, manifest, manifestOut, tree, rt, pc, idx,
                    dependencies, scanOut, results, all_dependencies, csv,
                    run, previous >>

NextSplit == Split

SpecSplit == InitSplit /\ [][NextSplit]_vars

\* s contains sub as a contiguous substring
Contains(s, sub) == \E i \in 1..(Len(s) + 1) : StartsWithAt(s, i, sub)

\* s contains a followed (not necessarily immediately) by b
ContainsThen(s, a, b) ==
    \E i \in 1..(Len(s) + 1) :
        /\ StartsWithAt(s, i, a)
        /\ \E j \in (i + Len(a))..(Len(s) + 1) : StartsWithAt(s, j, b)

SplitDone == splitOut # NoResult

\* C1: the four reference specifiers split into the expected pairs:
\* "pkg==1.0" -> pkg with "==1.0", "pkg>=1.0" -> pkg with ">=1.0",
\* "pkg" -> (pkg, Unknown), and the extras+condition example -> pkg with
\* ">=1.0" followed by the condition clause.
C1_ReferencePairs ==
    SplitDone =>
        /\ dep = RefPinned =>
              /\ splitOut[1] = RefBare
              /\ Contains(splitOut[2], <<"=","=","1",".","0">>)
        /\ dep = RefAtLeast =>
              splitOut = << RefBare, <<">","=","1",".","0">> >>
        /\ dep = RefBare => splitOut = << RefBare, Unknown >>
        /\ dep = RefFull =>
              /\ splitOut[1] = RefBare
              /\ ContainsThen(splitOut[2], <<">","=","1",".","0">>,
                              SubSeq(RefCondOnly, 4, Len(RefCondOnly)))

\* C10 (as stated): a matching specifier without a comparator+version clause
\* always gets version "Unknown", also when it carries a condition.
C10_NoComparatorIsUnknown ==
    (SplitDone /\ DependencyPattern(Strip(dep)).matched
               /\ DependencyPattern(Strip(dep)).g2 = << >>)
        => splitOut[2] = Unknown

\* C10 (amended): a matching specifier with neither a comparator+version
\* clause nor a condition gets version "Unknown"; with a condition only, the
\* version is the stripped condition text.
C10_NoClauseIsUnknown ==
    (SplitDone /\ DependencyPattern(Strip(dep)).matched
               /\ DependencyPattern(Strip(dep)).g2 = << >>)
        => /\ DependencyPattern(Strip(dep)).g3 = << >>
                => splitOut[2] = Unknown
           /\ DependencyPattern(Strip(dep)).g3 # << >>
                => splitOut[2] = Strip(DependencyPattern(Strip(dep)).g3)

C10_Witness ==
    /\ SplitDone
    /\ dep = RefExtrasOnly
    /\ splitOut = << RefBare, Unknown >>

(***************************************************************************)
(* Project metadata file: inputs and the step that applies                 *)
(* extract_pyproject_dependencies                                          *)
(***************************************************************************)
MaxEntries == 2

Absent == [t |-> "absent", v |-> << >>]

\* the entry key = value of a table, or nothing when the key is absent
Opt(key, value) == IF value = Absent THEN << >> ELSE << << key, value >> >>

PoetryEntries ==
    { << <<"r","e","q","u","e","s","t","s">>, Str(<<"^","2",".","0">>) >>, << <<"f","l","a","s","k">>, Str(<<"="," ","2",".","0">>) >> }

DevEntries == << << <<"p","y","t","e","s","t">>, Str(<<"*">>) >> >>

ProjectEntries == { Str(<<"d","j","a","n","g","o",">","="," ","4",".","0">>), Str(<<"c","l","i","c","k">>) }

\* a section that is not a table makes .items() raise
Malformed == Str(<<"*">>)

PoetryDependencyChoices ==
    {Absent, Malformed}
        \cup { Table(q) : q \in BoundedSeq(PoetryEntries, MaxEntries) }

PoetryChoices ==
    { Table(Opt(KeyDependencies, d) \o Opt(KeyDevDependencies, v)) :
        d \in PoetryDependencyChoices,
        v \in {Absent, Malformed, Table(DevEntries)} }

ToolChoices ==
    {Absent, Table(<< >>)}
        \cup { Table(<< << KeyPoetry, p >> >>) : p \in PoetryChoices }

ProjectChoices ==
    {Absent, Table(<< >>)}
        \cup { Table(<< << KeyDependencies, List(q) >> >>) :
                 q \in BoundedSeq(ProjectEntries, MaxEntries) }

NamePyproject == <<"p","y","p","r","o","j","e","c","t",".","t","o","m","l">>
PathPyproject == <<"p","r","o","j","/","p","y","p","r","o","j","e","c","t",".","t","o","m","l">>

InitPyproject ==
    /\ \E tool \in ToolChoices, project \in ProjectChoices,
          fails \in BOOLEAN :
          manifest =
              [File(NamePyproject, << >>,
                    Table(Opt(KeyTool, tool) \o Opt(KeyProject, project)))
               EXCEPT !.loadError = fails]
    /\ manifestOut = NoResult
    /\ tree = << >> /\ rt = NoRuntime /\ pc = "call" /\ idx = 0
    /\ IdleSplit /\ IdleScan /\ IdleRepo /\ IdleAgg

ExtractPyproject ==
    /\ pc = "call"
    /\ manifestOut' = extract_pyproject_dependencies(PathPyproject, manifest)
    /\ pc' = "done"
    /\ UNCHANGED << dep, splitOut, manifest, tree, rt, idx, dependencies,
                    scanOut, results, all_dependencies, csv, run, previous >>

NextPyproject == ExtractPyproject

SpecPyproject == InitPyproject /\ [][NextPyproject]_vars

\* the nested build-tool table tool.poetry of the file, when it has one
HasPoetry(f) ==
    /\ HasKey(f.data, KeyTool)
    /\ IsTable(Get(f.data, KeyTool))
    /\ HasKey(Get(f.data, KeyTool), KeyPoetry)
PoetryOf(f) == Get(Get(f.data, KeyTool), KeyPoetry)

\* the packages the standard project.dependencies list of the file names
ProjectPackages(f) ==
    IF HasKey(f.data, KeyProject)
           /\ HasKey(Get(f.data, KeyProject), KeyDependencies)
    THEN { split_dependency(
               Get(Get(f.data, KeyProject), KeyDependencies).v[i].v)[1] :
             i \in 1..Len(Get(Get(f.data, KeyProject), KeyDependencies).v) }
    ELSE {}

\* the entries of the sections of tool.poetry that are tables
PoetryDeclared(f) ==
    UNION { IF HasKey(PoetryOf(f), k) /\ IsTable(Get(PoetryOf(f), k))
            THEN { Get(PoetryOf(f), k).v[i][1] :
                     i \in 1..Len(Get(PoetryOf(f), k).v) }
            ELSE {} : k \in {KeyDependencies, KeyDevDependencies} }

\* C8: when the file has a tool.poetry table, every returned record comes
\* from an entry of its dependencies / dev-dependencies and none from
\* project.dependencies, also when both are present; records of
\* project.dependencies are returned only when tool.poetry is absent.
C8_PoetryPrecedence ==
    pc = "done" =>
        /\ HasPoetry(manifest) =>
              \A i \in 1..Len(manifestOut) :
                  /\ manifestOut[i][1] = PathPyproject
                  /\ manifestOut[i][2] \in PoetryDeclared(manifest)
                  /\ manifestOut[i][2] \notin ProjectPackages(manifest)
        /\ (\E i \in 1..Len(manifestOut) :
                manifestOut[i][2] \in ProjectPackages(manifest))
              => ~HasPoetry(manifest)

\* both tables present, and the poetry entries were returned
C8_Witness ==
    /\ pc = "done"
    /\ HasPoetry(manifest)
    /\ ProjectPackages(manifest) # {}
    /\ Len(manifestOut) = 3

(***************************************************************************)
(* Inline-import scanner: inputs and the steps of                          *)
(* extract_python_file_dependencies                                        *)
(***************************************************************************)
MaxLines == 2

ModOs == <<"o","s">>
ModSys == <<"s","y","s">>
ModMain == <<"_","_","m","a","i","n","_","_">>
ModNumpy == <<"n","u","m","p","y">>
ModRequests == <<"r","e","q","u","e","s","t","s">>

LineImportOs == <<"i","m","p","o","r","t"," ","o","s">>
LineImportRequests == <<"i","m","p","o","r","t"," ","r","e","q","u","e","s","t","s">>
LineFromNumpy == <<"f","r","o","m"," ","n","u","m","p","y"," ","i","m","p","o","r","t"," ","a","r","r","a","y">>
LineImportSys == <<"i","m","p","o","r","t"," ","s","y","s">>
LineImportMain == <<"i","m","p","o","r","t"," ","_","_","m","a","i","n","_","_">>
LineAssign == <<"x"," ","="," ","1">>

LineKinds ==
    { LineImportOs, LineImportRequests, LineFromNumpy, LineImportSys,
      LineImportMain, LineAssign }

\* sys is in the builtin registry; os is a standard-library module that
\* find_spec locates; numpy is located when it is installed; requests is
\* never installed; __main__ is loaded without a __spec__
Runtime(installed) ==
    [builtin_module_names |-> {ModSys},
     located |-> {ModOs, ModSys} \cup installed,
     specless |-> {ModMain}]

RuntimeChoices == { Runtime({}), Runtime({ModNumpy}) }

DirProj == <<"p","r","o","j">>
DirSub == <<"p","r","o","j","/","s","u","b">>
NameA == <<"a",".","p","y">>
NameB == <<"b",".","p","y">>
NameNotes == <<"n","o","t","e","s",".","t","x","t">>

\* the label extract_project_dependencies passes as python_version
PythonLabel == <<"P","y","t","h","o","n">>

Unopenable(f) == [f EXCEPT !.openError = TRUE]

\* what the second directory may hold
SubListings ==
    { << >>,
      << File(NameB, << LineImportOs, LineImportRequests >>, None) >>,
      << Unopenable(File(NameB, << LineImportOs >>, None)) >>,
      << File(NameNotes, << LineImportOs >>, None) >> }

InitScan ==
    /\ \E lines \in BoundedSeq(LineKinds, MaxLines), sub \in SubListings,
          unopenable \in BOOLEAN :
          tree = << [root |-> DirProj,
                     files |-> << [File(NameA, lines, None)
                                   EXCEPT !.openError = unopenable] >>],
                    [root |-> DirSub, files |-> sub] >>
    /\ rt \in RuntimeChoices
    /\ pc = "scan" /\ idx = 1
    /\ dependencies = {} /\ scanOut = NoResult
    /\ IdleSplit /\ IdleManifest /\ IdleRepo /\ IdleAgg

\* one iteration of the loop over the .py files of the walk
ScanStep ==
    /\ pc = "scan"
    /\ idx <= Len(PyFiles(tree))
    /\ dependencies' = dependencies \cup
           ScanFile(PyFiles(tree)[idx].root, PyFiles(tree)[idx].file, rt,
                    PythonLabel)
    /\ idx' = idx + 1
    /\ UNCHANGED << dep, splitOut, manifest, manifestOut, tree, rt, pc,
                    scanOut, results, all_dependencies, csv, run, previous >>

\* return list(dependencies)
ScanReturn ==
    /\ pc = "scan"
    /\ idx > Len(PyFiles(tree))
    /\ scanOut' \in Orderings(dependencies)
    /\ pc' = "done"
    /\ UNCHANGED << dep, splitOut, manifest, manifestOut, tree, rt, idx,
                    dependencies, results, all_dependencies, csv, run,
                    previous >>

NextScan == ScanStep \/ ScanReturn

SpecScan == InitScan /\ [][NextScan]_vars

Range(q) == { q[i] : i \in 1..Len(q) }

\* the top-level module named on an import/from line
LineModule(line) == SplitOn(ImportPattern(line).g1, <<".">>, 1)[1]

\* what the claim calls resolvable: in the builtin registry, or located
Resolvable(module) ==
    module \in rt.builtin_module_names \/ module \in rt.located

\* the probe raises on line i of f or on an earlier line
ProbeRaisedBy(f, i) ==
    \E j \in 1..i :
        /\ ImportPattern(f.lines[j]).matched
        /\ LineModule(f.lines[j]) \in rt.specless

\* C2: a module named on an import/from line of a scanned file is in the
\* result if and only if it is not resolvable; with `import os` and
\* `import requests` (requests not locatable) the result has a triple for
\* requests and none for os.
C2_KeptIffUnresolvable ==
    pc = "done" =>
        \A k \in 1..Len(PyFiles(tree)) :
            LET f == PyFiles(tree)[k].file
                path == PathJoin(PyFiles(tree)[k].root, f.name)
            IN  \A i \in 1..Len(f.lines) :
                    (/\ ~f.openError
                     /\ ImportPattern(f.lines[i]).matched
                     /\ ~ProbeRaisedBy(f, i))
                    => (<< path, LineModule(f.lines[i]), PythonLabel >>
                            \in Range(scanOut)
                        <=> ~Resolvable(LineModule(f.lines[i])))

(***************************************************************************)
(* Usage analysis: inputs and the steps of analyze_repo                    *)
(***************************************************************************)
MaxStmts == 2

Leaf(kind, name, lineno) == Node(kind, name, None, << >>, lineno, << >>)
NameNode(id, lineno) == Leaf("Name", id, lineno)
AttributeNode(value, attr, lineno) ==
    Node("Attribute", attr, None, << >>, lineno, << value >>)
CallNode(func, lineno) ==
    Node("Call", << >>, None, << >>, lineno, << func >>)
ExprNode(value, lineno) ==
    Node("Expr", << >>, None, << >>, lineno, << value >>)
ImportNode(names, lineno) ==
    Node("Import", << >>, None, names, lineno, << >>)

\* obj.method()
MethodCall(lineno) ==
    CallNode(AttributeNode(NameNode(<<"o","b","j">>, lineno), <<"m","e","t","h","o","d">>, lineno),
             lineno)

\* the statements a source file is made of, by the line they start on
Statement(tag, l) ==
    CASE tag = "import" ->      \* import json, os
           ImportNode(<< <<"j","s","o","n">>, <<"o","s">> >>, l)
      [] tag = "from" ->        \* from os import path
           Node("ImportFrom", << >>, Str(<<"o","s">>), << <<"p","a","t","h">> >>, l, << >>)
      [] tag = "call" ->        \* x = obj.method()
           Node("Assign", << >>, None, << >>, l,
                << NameNode(<<"x">>, l), MethodCall(l) >>)
      [] tag = "chain" ->       \* a.b.c
           ExprNode(AttributeNode(
                        AttributeNode(NameNode(<<"a">>, l), <<"b">>, l),
                        <<"c">>, l), l)
      [] tag = "decorated" ->   \* @reg.ister / def f(): / import re / obj.method()
           \* FunctionDef._fields: name, args, body, decorator_list, returns
           Node("FunctionDef", <<"f">>, None, << >>, l + 1,
                << Leaf("arguments", << >>, l + 1),
                   ImportNode(<< <<"r","e">> >>, l + 2),
                   ExprNode(MethodCall(l + 3), l + 3),
                   AttributeNode(NameNode(<<"r","e","g">>, l), <<"i","s","t","e","r">>, l) >>)
      [] tag = "deep" ->        \* an expression nested beyond the recursion limit
           ExprNode(Leaf("TooDeep", << >>, l), l)

StmtKinds == {"import", "from", "call", "chain", "decorated", "deep"}

\* number of source lines of a statement
Height(tag) == IF tag = "decorated" THEN 4 ELSE 1

RECURSIVE Body(_, _, _)
Body(tags, i, l) ==
    IF i > Len(tags) THEN << >>
    ELSE << Statement(tags[i], l) >> \o Body(tags, i + 1, l + Height(tags[i]))

\* ast.parse of a source made of the statements tags, one after the other
ModuleOf(tags) == Node("Module", << >>, None, << >>, 0, Body(tags, 1, 1))

MsgSyntax == <<"i","n","v","a","l","i","d"," ","s","y","n","t","a","x">>
MsgDecode == <<"i","n","v","a","l","i","d"," ","s","t","a","r","t"," ","b","y","t","e">>

SourceFile(name, tags) == File(name, << >>, ModuleOf(tags))
SyntaxErrorFile(name) ==
    [SourceFile(name, << >>) EXCEPT !.loadError = TRUE, !.message = MsgSyntax]
UndecodableFile(name) ==
    [SourceFile(name, << >>) EXCEPT !.readError = TRUE, !.message = MsgDecode]

\* the first source file of the repository
FirstFiles ==
    { SourceFile(NameA, tags) : tags \in BoundedSeq(StmtKinds, MaxStmts) }
        \cup { SyntaxErrorFile(NameA), UndecodableFile(NameA),
               Unopenable(SourceFile(NameA, << >>)) }

\* what else the directory lists
OtherFiles ==
    { << >>,
      << SourceFile(NameB, << "call", "import" >>) >>,
      << SyntaxErrorFile(NameB) >>,
      << Unopenable(SourceFile(NameB, << "import" >>)) >>,
      << File(NameNotes, << >>, None) >> }

RepoRoots == { DirProj, <<".","/","p","r","o","j">> }

InitRepo ==
    /\ \E first \in FirstFiles, other \in OtherFiles, root \in RepoRoots,
          firstLeads \in BOOLEAN :
          tree = << [root |-> root,
                     files |-> IF firstLeads THEN << first >> \o other
                               ELSE other \o << first >>] >>
    /\ rt = NoRuntime
    /\ pc = "walk" /\ idx = 1
    /\ results = << >>
    /\ IdleSplit /\ IdleManifest /\ IdleScan /\ IdleAgg

\* os.path.normpath(os.path.join(root, file)) of the k-th .py file
RepoPath(k) ==
    NormPath(PathJoin(PyFiles(tree)[k].root, PyFiles(tree)[k].file.name))

\* one iteration of the loop over the .py files of the walk; open() is
\* outside the try block, so its exception leaves analyze_repo
AnalyzeStep ==
    /\ pc = "walk"
    /\ idx <= Len(PyFiles(tree))
    /\ IF PyFiles(tree)[idx].file.openError
       THEN pc' = "raised" /\ UNCHANGED << idx, results >>
       ELSE /\ results' = results \o
                   FileRecords(RepoPath(idx), PyFiles(tree)[idx].file)
            /\ idx' = idx + 1
            /\ pc' = pc
    /\ UNCHANGED << dep, splitOut, manifest, manifestOut, tree, rt,
                    dependencies, scanOut, all_dependencies, csv, run,
                    previous >>

\* return results
AnalyzeReturn ==
    /\ pc = "walk"
    /\ idx > Len(PyFiles(tree))
    /\ pc' = "done"
    /\ UNCHANGED << dep, splitOut, manifest, manifestOut, tree, rt, idx,
                    dependencies, scanOut, results, all_dependencies, csv,
                    run, previous >>

NextRepo == AnalyzeStep \/ AnalyzeReturn

SpecRepo == InitRepo /\ [][NextRepo]_vars

\* the records of results that name the k-th .py file
RecordsOf(k) == SelectSeq(results, LAMBDA r : r[1] = RepoPath(k))

\* position in the walk of the file a record names
FileIndex(r) == CHOOSE k \in 1..Len(PyFiles(tree)) : RepoPath(k) = r[1]

\* reading, parsing or traversing the file raises inside the try block
ParseFails(f) ==
    /\ ~f.openError
    /\ f.readError \/ f.loadError \/ Visit(f.data, NoVisit).raised

\* C5: with a valid project root, no failure of a single .py file (open,
\* read, decode, parse) keeps analyze_repo from returning, and the result
\* has the records of every other .py file.
C5_SingleFileNeverAborts ==
    /\ pc # "raised"
    /\ pc = "done" =>
          \A k \in 1..Len(PyFiles(tree)) :
              ~PyFiles(tree)[k].file.openError /\ ~ParseFails(PyFiles(tree)[k].file)
                  => RecordsOf(k) = FileRecords(RepoPath(k), PyFiles(tree)[k].file)

\* a file whose parse or traversal failed has exactly its error record
ErrorRecordOnly ==
    \A k \in 1..(idx - 1) :
        ParseFails(PyFiles(tree)[k].file)
            => RecordsOf(k) = << << RepoPath(k), "error",
                                    PyFiles(tree)[k].file.message, -1 >> >>

\* the step that meets a failing file appends that one record, keeps the
\* earlier records and goes on with the next file
ErrorStepGoesOn ==
    (pc = "walk" /\ idx <= Len(PyFiles(tree))
         /\ ParseFails(PyFiles(tree)[idx].file))
        => /\ pc' = "walk"
           /\ idx' = idx + 1
           /\ Len(results') = Len(results) + 1
           /\ SubSeq(results', 1, Len(results)) = results

\* C6: a file whose parse (or traversal) fails has exactly one record in the
\* result, category "error", line -1, the failure message as symbol, and no
\* import or usage record; earlier records stay and later files are
\* processed.
C6_ErrorRecord ==
    /\ [](ErrorRecordOnly /\ (pc = "done" => idx = Len(PyFiles(tree)) + 1))
    /\ [][ErrorStepGoesOn]_vars

\* a failing file in front of a file that was analysed after it
C6_Witness ==
    /\ pc = "done"
    /\ Len(PyFiles(tree)) = 2
    /\ ParseFails(PyFiles(tree)[1].file)
    /\ RecordsOf(1) = << << RepoPath(1), "error", MsgSyntax, -1 >> >>
    /\ Len(RecordsOf(2)) = 3

\* C9 (as stated): files in walk order, one file's records contiguous, and
\* within a file the line numbers never decrease along the sequence.
C9_LinesNeverDecrease ==
    \A i, j \in 1..Len(results) :
        i < j =>
            /\ FileIndex(results[i]) <= FileIndex(results[j])
            /\ results[i][1] = results[j][1] => results[i][4] <= results[j][4]

\* C9 (amended): files in walk order, one file's records contiguous; within
\* a file every import record precedes every usage record, and the line
\* numbers of the import records never decrease.
C9_ImportsThenUsages ==
    \A i, j \in 1..Len(results) :
        i < j =>
            /\ FileIndex(results[i]) <= FileIndex(results[j])
            /\ results[i][1] = results[j][1] =>
                  /\ ~(results[i][2] = "usage" /\ results[j][2] = "import")
                  /\ (results[i][2] = "import" /\ results[j][2] = "import")
                        => results[i][4] <= results[j][4]

\* an import record of a later line in front of a usage record
C9_Witness ==
    /\ pc = "done"
    /\ \E i, j \in 1..Len(results) :
          /\ i < j
          /\ results[i][1] = results[j][1]
          /\ results[i][2] = "import" /\ results[j][2] = "usage"
          /\ results[i][4] > results[j][4]

(***************************************************************************)
(* Dependency aggregator: extract_project_dependencies                     *)
(***************************************************************************)
NamePoetryLock == <<"p","o","e","t","r","y",".","l","o","c","k">>
NamePipfile == <<"P","i","p","f","i","l","e">>
NameEnvironment == <<"e","n","v","i","r","o","n","m","e","n","t",".","y","m","l">>
NameRequirements == <<"r","e","q","u","i","r","e","m","e","n","t","s",".","t","x","t">>
NameSetupPy == <<"s","e","t","u","p",".","p","y">>

\* the keys of dependency_files, in the order the dict literal gives them
DependencyFiles ==
    << NamePyproject, NamePoetryLock, NamePipfile, NameEnvironment,
       NameRequirements, NameSetupPy >>

\* dependency_files[filename](file_path); raised = TRUE when the exception
\* leaves the extractor
Extract(i, path, f) ==
    CASE i = 1 -> [raised |-> FALSE,
                   deps |-> extract_pyproject_dependencies(path, f)]
      [] i = 2 -> [raised |-> FALSE,
                   deps |-> extract_poetry_lock_dependencies(path, f)]
      [] i = 3 -> [raised |-> FALSE,
                   deps |-> extract_pipfile_dependencies(path, f)]
      [] i = 4 -> [raised |-> FALSE,
                   deps |-> get_conda_dependencies(path, f)]
      [] i = 5 -> [raised |-> FALSE,
                   deps |-> get_pip_dependencies(path, f)]
      [] i = 6 -> parse_setup_py(path, f)

\* no handler around the extractor call
Unguarded(r) == r

\* try: all_dependencies.extend(extractor(file_path))
\* except Exception: print(...)
Guarded(r) ==
    [raised |-> FALSE, deps |-> IF r.raised THEN << >> ELSE r.deps]

\* extend that skips a record whose package the list already has
ExtendDistinct(list, more) ==
    list \o SelectSeq(more, LAMBDA r :
                 \A i \in 1..Len(list) : list[i][2] # r[2])

\* list.extend
Extend(list, more) == list \o more

CsvHeader == << <<"S","o","u","r","c","e"," ","P","a","t","h">>, <<"P","a","c","k","a","g","e">>, <<"V","e","r","s","i","o","n">> >>

MaxRuns == 2

\* the manifests a project may hold; every list starts with "no such file"
Missing == << >>

PyprojectSamples ==
    << Missing,
       << File(NamePyproject, << >>,
               Table(<< << KeyTool, Table(<< << KeyPoetry,
                   Table(<< << KeyDependencies, Table(<<
                       << <<"r","e","q","u","e","s","t","s">>, Str(<<"^","2",".","0">>) >> >>) >> >>)
               >> >>) >> >>)) >>,
       << [File(NamePyproject, << >>, None) EXCEPT !.loadError = TRUE] >> >>

PoetryLockSamples ==
    << Missing,
       << File(NamePoetryLock, << >>,
               Table(<< << KeyPackage, List(<<
                   Table(<< << KeyName, Str(<<"r","e","q","u","e","s","t","s">>) >>,
                            << KeyVersion, Str(<<"2",".","3","1",".","0">>) >> >>),
                   Table(<< << KeyName, Str(<<"n","u","m","p","y">>) >>,
                            << KeyVersion, Str(<<"1",".","2","6",".","0">>) >> >>) >>) >> >>)) >>,
       << [File(NamePoetryLock, << >>, None) EXCEPT !.loadError = TRUE] >> >>

\* the last one has a dev-packages entry that is no table
PipfileSamples ==
    << Missing,
       << File(NamePipfile, << >>,
               Table(<< << KeyPackages, Table(<<
                   << <<"f","l","a","s","k">>, Str(<<"="," ","2",".","0">>) >> >>) >> >>)) >>,
       << File(NamePipfile, << >>,
               Table(<< << KeyPackages, Table(<<
                            << <<"f","l","a","s","k">>, Str(<<"*">>) >> >>) >>,
                        << KeyDevPackages, Str(<<"*">>) >> >>)) >> >>

\* the last one has a pip entry without a list
EnvironmentSamples ==
    << Missing,
       << File(NameEnvironment, << >>,
               Table(<< << KeyDependencies, List(<<
                   Str(<<"n","u","m","p","y","="," ","1",".","2","6">>),
                   Table(<< << KeyPip, List(<< Str(<<"r","e","q","u","e","s","t","s">>) >>) >> >>)
               >>) >> >>)) >>,
       << File(NameEnvironment, << >>,
               Table(<< << KeyDependencies, List(<<
                   Str(<<"n","u","m","p","y">>),
                   Table(<< << KeyPip, None >> >>),
                   Str(<<"s","c","i","p","y">>) >>) >> >>)) >> >>

\* the last one breaks off after its first line
RequirementsSamples ==
    << Missing,
       << File(NameRequirements,
               << <<"f","l","a","s","k","=","=","2",".","0",".","1">>, <<"#"," ","p","i","n","n","e","d">>, <<"n","u","m","p","y">> >>, None) >>,
       << [File(NameRequirements, << <<"f","l","a","s","k","=","=","2",".","0",".","1">> >>, None)
           EXCEPT !.readError = TRUE] >> >>

SetupCall ==
    [func |-> NameSetup,
     keywords |-> << << KeyName, Str(<<"p","r","o","j">>) >>,
                     << ArgInstallRequires,
                        List(<< Str(<<"r","e","q","u","e","s","t","s">>), None,
                                Str(<<"a","t","t","r","s","="," ","2","3",".","1",";"," ","p","y","t","h","o","n","_","v","e","r","s","i","o","n",">","=","'","3",".","8","'">>)
                             >>) >> >>]

\* the last one does not parse
SetupSamples ==
    << Missing,
       << File(NameSetupPy, << <<"f","r","o","m"," ","s","e","t","u","p","t","o","o","l","s"," ","i","m","p","o","r","t"," ","s","e","t","u","p">> >>,
               << SetupCall >>) >>,
       << [File(NameSetupPy, << LineImportSys >>, << >>)
           EXCEPT !.loadError = TRUE] >> >>

SourceSamples ==
    << << >>,
       << File(NameA, << LineFromNumpy >>, None),
          File(NameB, << LineImportOs, LineImportOs >>, None) >> >>

\* a second requirements.txt further down the tree
SubSamples ==
    << << >>,
       << File(NameRequirements, << <<"d","j","a","n","g","o","=","=","4",".","0">> >>, None) >> >>

InitAgg ==
    /\ \E a \in 1..Len(PyprojectSamples), b \in 1..Len(PoetryLockSamples),
          c \in 1..Len(PipfileSamples), d \in 1..Len(EnvironmentSamples),
          e \in 1..Len(RequirementsSamples), g \in 1..Len(SetupSamples),
          s \in 1..Len(SourceSamples), u \in 1..Len(SubSamples) :
          tree = << [root |-> DirProj,
                     files |-> PyprojectSamples[a] \o PoetryLockSamples[b]
                               \o PipfileSamples[c] \o EnvironmentSamples[d]
                               \o RequirementsSamples[e] \o SetupSamples[g]
                               \o SourceSamples[s]],
                    [root |-> DirSub, files |-> SubSamples[u]] >>
    /\ rt = Runtime({ModNumpy})
    /\ pc = "manifests" /\ idx = 1
    /\ all_dependencies = << >> /\ csv = NoResult
    /\ run = 1 /\ previous = NoResult
    /\ IdleSplit /\ IdleManifest /\ IdleScan /\ IdleRepo

\* what the loop body appends for the i-th name of dependency_files
Produced(i) ==
    LET file_path == find_file(tree, DependencyFiles[i])
    IN  IF file_path # NotFound
        THEN Guarded(Extract(i, file_path, FileAt(tree, file_path)))
        ELSE [raised |-> FALSE, deps |-> << >>]

\* one iteration of the loop over dependency_files
ManifestStep ==
    /\ pc = "manifests"
    /\ IF Produced(idx).raised
       THEN pc' = "raised" /\ UNCHANGED << idx, all_dependencies >>
       ELSE /\ all_dependencies' = Extend(all_dependencies, Produced(idx).deps)
            /\ idx' = idx + 1
            /\ pc' = IF idx = Len(DependencyFiles) THEN "inline" ELSE pc
    /\ UNCHANGED << dep, splitOut, manifest, manifestOut, tree, rt,
                    dependencies, scanOut, results, csv, run, previous >>

\* all_dependencies.extend(extract_python_file_dependencies(path, "Python"))
InlineStep ==
    /\ pc = "inline"
    /\ \E listed \in Orderings(ScannedSet(tree, rt, PythonLabel)) :
          all_dependencies' = Extend(all_dependencies, listed)
    /\ pc' = "csv"
    /\ UNCHANGED << dep, splitOut, manifest, manifestOut, tree, rt, idx,
                    dependencies, scanOut, results, csv, run, previous >>

\* pd.DataFrame(all_dependencies, columns=[...]).to_csv(csv_file); the write
\* raises when the project root cannot be written
WriteCsv ==
    /\ pc = "csv"
    /\ \E written \in BOOLEAN :
          IF written
          THEN csv' = << CsvHeader >> \o all_dependencies /\ pc' = "done"
          ELSE csv' = csv /\ pc' = "raised"
    /\ UNCHANGED << dep, splitOut, manifest, manifestOut, tree, rt, idx,
                    dependencies, scanOut, results, all_dependencies, run,
                    previous >>

\* the tool is called again on the same tree
Rerun ==
    /\ pc = "done"
    /\ run < MaxRuns
    /\ previous' = all_dependencies
    /\ run' = run + 1
    /\ all_dependencies' = << >>
    /\ pc' = "manifests" /\ idx' = 1
    /\ UNCHANGED << dep, splitOut, manifest, manifestOut, tree, rt,
                    dependencies, scanOut, results, csv >>

NextAgg == ManifestStep \/ InlineStep \/ WriteCsv \/ Rerun

SpecAgg == InitAgg /\ [][NextAgg]_vars

\* the run is past the inline scan
Scanned == pc \in {"csv", "done", "raised"}

\* the records appended by the loop over dependency_files, and those
\* appended after it, when `count` records were appended after it
ManifestPart(count) ==
    SubSeq(all_dependencies, 1, Len(all_dependencies) - count)
InlinePart(count) ==
    SubSeq(all_dependencies, Len(all_dependencies) - count + 1,
           Len(all_dependencies))

Found(i) == find_file(tree, DependencyFiles[i]) # NotFound
ManifestPath(i) == find_file(tree, DependencyFiles[i])
ManifestFile(i) == FileAt(tree, ManifestPath(i))

\* the file cannot be opened, read or parsed
Failing(f) == f.openError \/ f.readError \/ f.loadError

\* the same content without the failure
Intact(f) ==
    [f EXCEPT !.openError = FALSE, !.readError = FALSE, !.loadError = FALSE]

IsPrefix(p, q) == Len(p) <= Len(q) /\ SubSeq(q, 1, Len(p)) = p

\* the records of list that name path as their source
From(list, path) == SelectSeq(list, LAMBDA r : r[1] = path)

\* C3: a second run on the unchanged tree yields the record sequence of the
\* first run, element for element and in the same order, inline-import
\* records included.
C3_SameSequenceTwice ==
    (run = 2 /\ pc \in {"csv", "done"}) => all_dependencies = previous

\* C4: whichever manifests fail, a failing manifest contributes nothing or a
\* prefix of its records, every other found manifest contributes all its
\* records, all inline-import records are in the collection, and the run
\* gets to the inline scan and to the CSV write.
C4_FailuresStayLocal ==
    /\ pc = "raised" => idx = Len(DependencyFiles) + 1
    /\ Scanned =>
          LET inline == ScannedSet(tree, rt, PythonLabel)
              part == ManifestPart(Cardinality(inline))
          IN  /\ \A i \in 1..Len(DependencyFiles) :
                    Found(i) =>
                        LET given == From(part, ManifestPath(i))
                        IN  /\ IsPrefix(given,
                                    Extract(i, ManifestPath(i),
                                            Intact(ManifestFile(i))).deps)
                            /\ ~Failing(ManifestFile(i)) =>
                                  given = Extract(i, ManifestPath(i),
                                                  ManifestFile(i)).deps
              /\ Range(InlinePart(Cardinality(inline))) = inline

\* setup.py does not parse, requirements.txt breaks off, and the records of
\* environment.yml and of the source files are there
C4_Witness ==
    /\ pc = "done"
    /\ Len(all_dependencies) = 5
    /\ Found(6) /\ ManifestFile(6).loadError
    /\ From(all_dependencies, ManifestPath(6)) = << >>
    /\ Found(5) /\ ManifestFile(5).readError
    /\ Len(From(all_dependencies, ManifestPath(5))) = 1
    /\ Found(4) /\ Len(From(all_dependencies, ManifestPath(4))) = 2
    /\ Len(From(all_dependencies, PathJoin(DirProj, NameB))) = 1

\* number of records of a list that name package
Occurrences(list, package) ==
    Cardinality({ i \in 1..Len(list) : list[i][2] = package })

\* the sources that declare package: manifests by what their parser
\* returned, source files by what the scanner kept
DeclaringSources(path, returned, inline, package) ==
    { path[i] : i \in { k \in 1..Len(DependencyFiles) :
          \E n \in 1..Len(returned[k]) : returned[k][n][2] = package } }
    \cup { r[1] : r \in { x \in inline : x[2] = package } }

\* C7: manifest records come before inline-import records, grouped per
\* manifest in the order of dependency_files with each parser's order kept,
\* and nothing is removed or merged: a package declared by k sources
\* appears (at least) k times.
C7_ManifestThenInline ==
    Scanned =>
        LET inline == ScannedSet(tree, rt, PythonLabel)
            part == ManifestPart(Cardinality(inline))
            rest == InlinePart(Cardinality(inline))
            path == [i \in 1..Len(DependencyFiles) |-> ManifestPath(i)]
            returned == [i \in 1..Len(DependencyFiles) |-> Produced(i).deps]
            rank == [n \in 1..Len(part) |->
                        CHOOSE i \in 1..Len(DependencyFiles) :
                            path[i] # NotFound /\ path[i] = part[n][1]]
        IN  /\ \A n \in 1..Len(part) :
                  \E i \in 1..Len(DependencyFiles) :
                      path[i] # NotFound /\ path[i] = part[n][1]
            /\ \A m, n \in 1..Len(part) : m < n => rank[m] <= rank[n]
            /\ \A i \in 1..Len(DependencyFiles) :
                  path[i] # NotFound => From(part, path[i]) = returned[i]
            /\ \A n \in 1..Len(rest) : rest[n] \in inline
            /\ \A r \in Range(all_dependencies) :
                  Occurrences(all_dependencies, r[2])
                      >= Cardinality(DeclaringSources(path, returned, inline,
                                                   r[2]))

\* requests is declared by environment.yml and by setup.py, numpy by
\* environment.yml and by a source file, and each is there twice
C7_Witness ==
    /\ pc = "done"
    /\ Len(all_dependencies) = 6
    /\ Len(From(all_dependencies, PathJoin(DirProj, NameEnvironment))) = 2
    /\ Len(From(all_dependencies, PathJoin(DirProj, NameSetupPy))) = 2
    /\ Occurrences(all_dependencies, ModRequests) = 2
    /\ Occurrences(all_dependencies, ModNumpy) = 2
    /\ all_dependencies[5][3] = PythonLabel
    /\ all_dependencies[6][3] = PythonLabel

====
